---- MODULE Spec2Model ----
(* A model of bufstream's BufStream<S> (src/src/lib.rs): a BufReader wrapped     *)
(* around an InternalBufWriter (an Option<BufWriter<S>>) wrapped around the      *)
(* duplex resource S.  The resource S is the environment: each of its read,      *)
(* write and flush calls picks one of the outcomes the Read / Write traits       *)
(* allow.  History variables (sink, accepted, delivered, last) record what the   *)
(* resource and the caller have observed.                                        *)
EXTENDS Integers, Sequences, FiniteSets, TLC

\* ---------------------------------------------------------------- bounds
MaxOps == 3      \* public operations called on one stream
MaxLen == 2      \* longest write source / read destination
MaxCap == 2      \* largest reader / writer capacity given to with_capacities
SrcLen == 3      \* bytes the resource's read side holds before end of stream
MaxInterrupts == 4   \* Interrupted answers of the resource within one flush_buf

VARIABLES
  rcap,       \* BufReader capacity (reader_cap)
  wcap,       \* BufWriter capacity (writer_cap)
  owner,      \* who owns the resource: "stream", "caller" (unwrapped), "dropped"
  slot,       \* InternalBufWriter.0: "Some" or "None"
  panicked,   \* an unwrap() of an empty slot happened
  wbuf,       \* BufWriter's buffered, unflushed bytes
  rbuf,       \* BufReader's filled region
  pos,        \* BufReader's cursor into rbuf
  sink,       \* bytes the resource has received through its write
  srcPos,     \* bytes the resource's read has yielded so far
  accepted,   \* bytes accepted by the stream's write (Ok(n): first n of buf)
  delivered,  \* bytes handed to the caller by read / consume
  offered,    \* bytes the caller has passed to write so far (numbers them)
  wfail,      \* some resource write or flush call has failed
  eof,        \* some read or fill_buf got 0 bytes from the resource
  nops,       \* public operations called so far
  last        \* the last public operation: name, argument, result, resource calls

vars == <<rcap, wcap, owner, slot, panicked, wbuf, rbuf, pos, sink, srcPos,
          accepted, delivered, offered, wfail, eof, nops, last>>

\* ---------------------------------------------------------------- values
Min(a, b) == IF a < b THEN a ELSE b

Take(s, n) == SubSeq(s, 1, n)

Drop(s, n) == SubSeq(s, n + 1, Len(s))

\* io::Error: its kind, its message, and whether it carries a raw OS code.
NoErr == [kind |-> "none", msg |-> "", os |-> FALSE]

Errors ==
  { [kind |-> "Interrupted", msg |-> "interrupted", os |-> FALSE],
    [kind |-> "BrokenPipe", msg |-> "broken pipe", os |-> TRUE] }

\* io::Error::new(kind, message): a custom error, no OS code.
NewError(kind, msg) == [kind |-> kind, msg |-> msg, os |-> FALSE]

Ok(n) == [ok |-> TRUE, n |-> n, err |-> NoErr]

Err(e) == [ok |-> FALSE, n |-> 0, err |-> e]

\* One call on the resource, as the stream issued it.
Call(fn, len, res) == [fn |-> fn, len |-> len, res |-> res]

\* The k bytes the caller passes to its next write: numbered, so that a lost,
\* repeated or reordered byte shows.
WData(from, k) == [i \in 1..k |-> from + i]

\* The n bytes the resource's read yields next.
SrcData(from, n) == [i \in 1..n |-> 100 + from + i]

\* ---------------------------------------------------------------- the resource S
\* S::read into a destination of len bytes: an error, or Ok(n), n <= len bytes
\* (0 at end of stream, and whenever the resource chooses).
ResRead(len, at) == {Ok(n) : n \in 0..Min(len, SrcLen - at)} \cup {Err(e) : e \in Errors}

\* S::write of len bytes: an error, or Ok(n) with n <= len bytes taken.
ResWrite(len) == {Ok(n) : n \in 0..len} \cup {Err(e) : e \in Errors}

\* S::flush.
ResFlush == {Ok(0)} \cup {Err(e) : e \in Errors}

\* ---------------------------------------------------------------- construction
\* The capacities tried: none, one byte, and the largest.
ReaderCaps == {0, 1, MaxCap}

\* The writer capacities tried: none and the largest.
WriterCaps == {0, MaxCap}

\* BufStream::with_capacities: an empty writer in a full slot, an empty reader.
Init ==
  /\ rcap \in ReaderCaps
  /\ wcap \in WriterCaps
  /\ owner = "stream"
  /\ slot = "Some"
  /\ panicked = FALSE
  /\ wbuf = <<>>
  /\ rbuf = <<>>
  /\ pos = 0
  /\ sink = <<>>
  /\ srcPos = 0
  /\ accepted = <<>>
  /\ delivered = <<>>
  /\ offered = 0
  /\ wfail = FALSE
  /\ eof = FALSE
  /\ nops = 0
  /\ last = [op |-> "new", len |-> 0, res |-> Ok(0), calls |-> <<>>]

Live == owner = "stream" /\ ~panicked /\ nops < MaxOps

\* What an operation leaves behind in `last`.
Done(op, len, res, calls) == [op |-> op, len |-> len, res |-> res, calls |-> calls]

\* Option::unwrap on an empty slot: the thread panics.  What the operation did
\* before the unwrap stays done: ow, wb, rb, p are the owner and the buffers it
\* leaves behind.
PanicTo(op, len, ow, wb, rb, p) ==
  /\ panicked' = TRUE
  /\ nops' = nops + 1
  /\ last' = Done(op, len, Err(NoErr), <<>>)
  /\ owner' = ow
  /\ wbuf' = wb
  /\ rbuf' = rb
  /\ pos' = p
  /\ UNCHANGED <<eof, rcap, wcap, slot, sink, srcPos,
                 accepted, delivered, offered, wfail>>

\* A panic in an operation that had changed nothing yet (write, flush, fill_buf,
\* get_ref, get_mut, and read on its refill path).
Panic(op, len) == PanicTo(op, len, owner, wbuf, rbuf, pos)

\* (mutant) Option::take in place of as_mut: the access empties the slot.
SlotTaken(s) == "None"

\* Option::as_mut / as_ref: the slot is borrowed, not emptied.
SlotAsMut(s) == s

\* ---------------------------------------------------------------- the read half
\* The unconsumed window: the filled bytes from the cursor on.
WindowOf(buf, p) == SubSeq(buf, p + 1, Len(buf))

\* (mutant) read never takes the bypass: every read goes through the buffer.
BypassNever(buf, p, cap, len) == FALSE

\* (mutant) read takes the bypass on the destination's size alone, whatever
\* is still unconsumed.
BypassIgnoresWindow(buf, p, cap, len) == len >= cap

\* BufReader::read takes the bypass: nothing buffered and a destination at
\* least as large as the internal buffer.
Bypass(buf, p, cap, len) == p = Len(buf) /\ len >= cap

\* BufReader::fill_buf refills: the window is used up.
Refill(buf, p) == p >= Len(buf)

\* (mutant) fill_buf reports a read of no bytes as an UnexpectedEof error.
FillBufOfEofIsError(buf, p, cap, at, o) ==
  IF Refill(buf, p)
    THEN IF o.ok /\ o.n > 0
           THEN [buf |-> SrcData(at, o.n), pos |-> 0, res |-> Ok(o.n),
                 calls |-> <<Call("read", cap, o)>>, got |-> o.n]
           ELSE [buf |-> <<>>, pos |-> 0,
                 res |-> IF o.ok THEN Err(NewError("UnexpectedEof", "eof")) ELSE o,
                 calls |-> <<Call("read", cap, o)>>, got |-> 0]
    ELSE [buf |-> buf, pos |-> p, res |-> Ok(Len(buf) - p), calls |-> <<>>, got |-> 0]

\* (mutant) fill_buf flushes the resource before it reads from it.
FillBufOfFlushesFirst(buf, p, cap, at, o) ==
  IF Refill(buf, p)
    THEN [buf |-> IF o.ok THEN SrcData(at, o.n) ELSE <<>>, pos |-> 0, res |-> o,
          calls |-> <<Call("flush", 0, Ok(0)), Call("read", cap, o)>>, got |-> o.n]
    ELSE [buf |-> buf, pos |-> p, res |-> Ok(Len(buf) - p), calls |-> <<>>, got |-> 0]

\* BufReader::fill_buf, the resource's read (if one is issued) answering o.
FillBufOf(buf, p, cap, at, o) ==
  IF Refill(buf, p)
    THEN IF o.ok
           THEN [buf |-> SrcData(at, o.n), pos |-> 0, res |-> Ok(o.n),
                 calls |-> <<Call("read", cap, o)>>, got |-> o.n]
           ELSE [buf |-> <<>>, pos |-> 0, res |-> o,
                 calls |-> <<Call("read", cap, o)>>, got |-> 0]
    ELSE [buf |-> buf, pos |-> p, res |-> Ok(Len(buf) - p), calls |-> <<>>, got |-> 0]

\* (mutant) consume adds amt to the cursor without clamping it.
ConsumeOfUnchecked(buf, p, amt) == p + amt

\* BufReader::consume: the cursor moves by amt, at most to the end of the window.
ConsumeOf(buf, p, amt) == Min(p + amt, Len(buf))

\* BufReader::read into a destination of len bytes.
ReadOf(buf, p, cap, len, at, o) ==
  IF Bypass(buf, p, cap, len)
    THEN [buf |-> <<>>, pos |-> 0, res |-> o, calls |-> <<Call("read", len, o)>>,
          got |-> o.n, out |-> SrcData(at, o.n)]
    ELSE LET f == FillBufOf(buf, p, cap, at, o) IN
         IF ~f.res.ok
           THEN [buf |-> f.buf, pos |-> f.pos, res |-> f.res, calls |-> f.calls,
                 got |-> 0, out |-> <<>>]
           ELSE LET nread == Min(len, Len(f.buf) - f.pos) IN
                [buf |-> f.buf, pos |-> ConsumeOf(f.buf, f.pos, nread),
                 res |-> Ok(nread), calls |-> f.calls, got |-> f.got,
                 out |-> SubSeq(f.buf, f.pos + 1, f.pos + nread)]

\* One of the calls is a resource read that yielded no byte.
SawZero(calls) ==
  \E i \in 1..Len(calls) : calls[i].fn = "read" /\ calls[i].res = Ok(0)

\* The answers the resource can give to the read call (if any) of a stream read.
ReadOutcomes(buf, p, cap, len, at) ==
  IF Bypass(buf, p, cap, len) THEN ResRead(len, at)
  ELSE IF Refill(buf, p) THEN ResRead(cap, at)
  ELSE {Ok(0)}

\* <BufStream as Read>::read
Read(len) ==
  /\ Live
  /\ IF slot = "None" /\ (Bypass(rbuf, pos, rcap, len) \/ Refill(rbuf, pos))
       THEN IF Bypass(rbuf, pos, rcap, len)
              THEN PanicTo("read", len, owner, wbuf, <<>>, 0)
              ELSE Panic("read", len)
       ELSE \E o \in ReadOutcomes(rbuf, pos, rcap, len, srcPos) :
              LET r == ReadOf(rbuf, pos, rcap, len, srcPos, o) IN
              /\ rbuf' = r.buf
              /\ pos' = r.pos
              /\ srcPos' = srcPos + r.got
              /\ delivered' = delivered \o r.out
              /\ nops' = nops + 1
              /\ last' = Done("read", len, r.res, r.calls)
              /\ eof' = (eof \/ SawZero(r.calls))
              /\ UNCHANGED <<rcap, wcap, owner, slot, panicked, wbuf, sink,
                             accepted, offered, wfail>>

\* <BufStream as BufRead>::fill_buf
FillBuf ==
  /\ Live
  /\ IF slot = "None" /\ Refill(rbuf, pos)
       THEN Panic("fill_buf", 0)
       ELSE \E o \in (IF Refill(rbuf, pos) THEN ResRead(rcap, srcPos) ELSE {Ok(0)}) :
              LET f == FillBufOf(rbuf, pos, rcap, srcPos, o) IN
              /\ rbuf' = f.buf
              /\ pos' = f.pos
              /\ srcPos' = srcPos + f.got
              /\ nops' = nops + 1
              /\ last' = Done("fill_buf", 0, f.res, f.calls)
              /\ eof' = (eof \/ SawZero(f.calls))
              /\ UNCHANGED <<rcap, wcap, owner, slot, panicked, wbuf, sink,
                             accepted, delivered, offered, wfail>>

\* <BufStream as BufRead>::consume
Consume(amt) ==
  /\ Live
  /\ pos' = ConsumeOf(rbuf, pos, amt)
  /\ delivered' = delivered \o Take(WindowOf(rbuf, pos), Min(amt, Len(WindowOf(rbuf, pos))))
  /\ nops' = nops + 1
  /\ last' = Done("consume", amt, Ok(0), <<>>)
  /\ UNCHANGED <<eof, rcap, wcap, owner, slot, panicked, wbuf, rbuf, sink, srcPos,
                 accepted, offered, wfail>>

\* ---------------------------------------------------------------- the write half
\* (mutant) write reports the whole source as taken, whatever the resource took.
WriteOfReportsAll(wb, data, o) ==
  [wbuf |-> wb, sent |-> Take(data, o.n),
   res |-> IF o.ok THEN Ok(Len(data)) ELSE o,
   calls |-> <<Call("write", Len(data), o)>>]

\* (mutant) write stages the bytes in the BufWriter while flush still goes
\* straight to the resource.
WriteOfBuffered(wb, data, o) ==
  [wbuf |-> wb \o data, sent |-> <<>>, res |-> Ok(Len(data)), calls |-> <<>>]

\* (mutant) write re-issues a resource write that was interrupted.
WriteOfRetry(wb, data, o) ==
  [wbuf |-> wb, sent |-> Take(data, o.n), res |-> o,
   calls |-> IF ~o.ok /\ o.err.kind = "Interrupted"
               THEN <<Call("write", Len(data), o), Call("write", Len(data), o)>>
               ELSE <<Call("write", Len(data), o)>>]

\* (mutant) write stages in the BufWriter whatever the resource did not take
\* and reports the whole source as written.
WriteOfKeepsRest(wb, data, o) ==
  [wbuf |-> IF o.ok THEN wb \o Drop(data, o.n) ELSE wb,
   sent |-> Take(data, o.n),
   res |-> IF o.ok THEN Ok(Len(data)) ELSE o,
   calls |-> <<Call("write", Len(data), o)>>]

\* <BufStream as Write>::write: .get_mut() on the BufWriter yields the resource
\* itself, whose write is called with the caller's bytes.
WriteOf(wb, data, o) ==
  [wbuf |-> wb, sent |-> Take(data, o.n), res |-> o,
   calls |-> <<Call("write", Len(data), o)>>]

\* <BufStream as Write>::flush: the resource's own flush, reached the same way.
FlushOf(wb, o) ==
  [wbuf |-> wb, sent |-> <<>>, res |-> o, calls |-> <<Call("flush", 0, o)>>]

\* (mutant) the two halves share the cursor: a write rewinds the reader.
WriteSharedCursor(len) ==
  /\ Live
  /\ slot = "Some"
  /\ \E o \in ResWrite(len) :
       LET w == WriteOf(wbuf, WData(offered, len), o) IN
       /\ wbuf' = w.wbuf
       /\ sink' = sink \o w.sent
       /\ accepted' = accepted \o Take(WData(offered, len), w.res.n)
       /\ offered' = offered + len
       /\ wfail' = (wfail \/ ~o.ok)
       /\ pos' = 0
       /\ nops' = nops + 1
       /\ last' = Done("write", len, w.res, w.calls)
       /\ UNCHANGED <<eof, rcap, wcap, owner, slot, panicked, rbuf, srcPos, delivered>>

Write(len) ==
  /\ Live
  /\ IF slot = "None"
       THEN Panic("write", len)
       ELSE \E o \in ResWrite(len) :
              LET w == WriteOf(wbuf, WData(offered, len), o) IN
              /\ wbuf' = w.wbuf
              /\ sink' = sink \o w.sent
              /\ accepted' = accepted \o Take(WData(offered, len), w.res.n)
              /\ offered' = offered + len
              /\ wfail' = (wfail \/ \E i \in 1..Len(w.calls) : ~w.calls[i].res.ok)
              /\ slot' = SlotAsMut(slot)
              /\ nops' = nops + 1
              /\ last' = Done("write", len, w.res, w.calls)
              /\ UNCHANGED <<eof, rcap, wcap, owner, panicked, rbuf, pos, srcPos, delivered>>

Flush ==
  /\ Live
  /\ IF slot = "None"
       THEN Panic("flush", 0)
       ELSE \E o \in ResFlush :
              LET w == FlushOf(wbuf, o) IN
              /\ wbuf' = w.wbuf
              /\ sink' = sink \o w.sent
              /\ wfail' = (wfail \/ \E i \in 1..Len(w.calls) : ~w.calls[i].res.ok)
              /\ slot' = SlotAsMut(slot)
              /\ nops' = nops + 1
              /\ last' = Done("flush", 0, w.res, w.calls)
              /\ UNCHANGED <<eof, rcap, wcap, owner, panicked, rbuf, pos, srcPos,
                             accepted, delivered, offered>>

\* ---------------------------------------------------------------- unwrap and drop
\* The error BufWriter::flush_buf makes up when the resource takes no byte.
WriteZero == NewError("WriteZero", "failed to write the buffered data")

\* BufWriter::flush_buf from `written` bytes on, the resource answering
\* Interrupted at most `left` more times: every way its loop can end.  Each
\* turn writes the rest of the buffer to the resource: Ok(0) ends it with
\* WriteZero, Ok(n) advances by n, Interrupted is tried again (as often as the
\* resource interrupts), any other error ends it.  A run is the bytes written,
\* the error (NoErr: all written) and the calls made.
RECURSIVE FlushBufRuns(_, _, _)
FlushBufRuns(wb, written, left) ==
  IF written >= Len(wb)
    THEN {[written |-> written, err |-> NoErr, calls |-> <<>>]}
  ELSE UNION {
    LET c == Call("write", Len(wb) - written, o)
        next(w, l) == {[r EXCEPT !.calls = <<c>> \o @] : r \in FlushBufRuns(wb, w, l)}
    IN  IF ~o.ok
          THEN IF o.err.kind = "Interrupted"
                 THEN IF left > 0 THEN next(written, left - 1) ELSE {}
                 ELSE {[written |-> written, err |-> o.err, calls |-> <<c>>]}
          ELSE IF o.n = 0
                 THEN {[written |-> written, err |-> WriteZero, calls |-> <<c>>]}
                 ELSE next(written + o.n, left)
    : o \in ResWrite(Len(wb) - written) }

\* The runs of flush_buf on buffer wb in which the resource interrupts at most
\* MaxInterrupts times; the loop itself sets no limit.  An empty buffer has
\* one run: no call, no error.
FlushBufOutcomes(wb) == FlushBufRuns(wb, 0, MaxInterrupts)

\* BufWriter::into_inner after run: Ok(resource), or the error together with
\* the writer, which keeps the bytes not yet written.
BufWriterIntoInner(wb, run) ==
  [ok |-> run.err = NoErr,
   wbuf |-> Drop(wb, run.written),
   sent |-> Take(wb, run.written),
   err |-> run.err,
   calls |-> run.calls]

\* One of the calls failed.
SawError(calls) == \E i \in 1..Len(calls) : ~calls[i].res.ok

\* BufStream::into_inner: take the writer out of the slot, dissolve it; on
\* failure put the returned writer back and hand the stream back with a rebuilt
\* error.
IntoInnerOf(sl, wb, rb, p, run) ==
  LET r == BufWriterIntoInner(wb, run) IN
  IF r.ok
    THEN [owner |-> "caller", slot |-> "None", wbuf |-> <<>>, rbuf |-> <<>>, pos |-> 0,
          sent |-> r.sent, res |-> Ok(0), calls |-> r.calls]
    ELSE [owner |-> "stream", slot |-> "Some", wbuf |-> r.wbuf, rbuf |-> rb, pos |-> p,
          sent |-> r.sent, res |-> Err(NewError(r.err.kind, r.err.msg)),
          calls |-> r.calls]

IntoInner ==
  /\ Live
  /\ IF slot = "None"
       THEN PanicTo("into_inner", 0, "dropped", <<>>, <<>>, 0)
       ELSE \E run \in FlushBufOutcomes(wbuf) :
              LET r == IntoInnerOf(slot, wbuf, rbuf, pos, run) IN
              /\ owner' = r.owner
              /\ slot' = r.slot
              /\ wbuf' = r.wbuf
              /\ rbuf' = r.rbuf
              /\ pos' = r.pos
              /\ sink' = sink \o r.sent
              /\ wfail' = (wfail \/ SawError(r.calls))
              /\ nops' = nops + 1
              /\ last' = Done("into_inner", 0, r.res, r.calls)
              /\ UNCHANGED <<eof, rcap, wcap, panicked, srcPos, accepted, delivered, offered>>

\* Dropping the stream drops the BufWriter (if the slot holds one), which
\* writes its buffer out and ignores the result.
DropStream ==
  /\ Live
  /\ \E run \in FlushBufOutcomes(IF slot = "Some" THEN wbuf ELSE <<>>) :
       LET r == BufWriterIntoInner(IF slot = "Some" THEN wbuf ELSE <<>>, run) IN
       /\ owner' = "dropped"
       /\ wbuf' = <<>>
       /\ rbuf' = <<>>
       /\ pos' = 0
       /\ sink' = sink \o r.sent
       /\ wfail' = (wfail \/ SawError(r.calls))
       /\ nops' = nops + 1
       /\ last' = Done("drop", 0, Ok(0), r.calls)
       /\ UNCHANGED <<eof, rcap, wcap, slot, panicked, srcPos, accepted, delivered, offered>>

\* BufStream::get_ref / get_mut: a reference to the resource, through the slot.
GetRef ==
  /\ Live
  /\ IF slot = "None"
       THEN Panic("get_ref", 0)
       ELSE /\ nops' = nops + 1
            /\ last' = Done("get_ref", 0, Ok(0), <<>>)
            /\ UNCHANGED <<eof, rcap, wcap, owner, slot, panicked, wbuf, rbuf, pos, sink,
                           srcPos, accepted, delivered, offered, wfail>>

GetMut ==
  /\ Live
  /\ IF slot = "None"
       THEN Panic("get_mut", 0)
       ELSE /\ nops' = nops + 1
            /\ last' = Done("get_mut", 0, Ok(0), <<>>)
            /\ UNCHANGED <<eof, rcap, wcap, owner, slot, panicked, wbuf, rbuf, pos, sink,
                           srcPos, accepted, delivered, offered, wfail>>

\* ---------------------------------------------------------------- specification
Next ==
  \/ \E len \in 0..MaxLen : Read(len)
  \/ FillBuf
  \/ \E amt \in 0..MaxLen : Consume(amt)
  \/ \E len \in 0..MaxLen : Write(len)
  \/ Flush
  \/ IntoInner
  \/ DropStream
  \/ GetRef
  \/ GetMut

Spec == Init /\ [][Next]_vars

\* ---------------------------------------------------------------- facts of the model
\* Nothing ever stages a byte in the BufWriter: write and flush go round it.
OutputBufferAlwaysEmpty == wbuf = <<>>

\* With nothing to write out, BufWriter::into_inner issues no call and cannot
\* fail: the Err branch of BufStream::into_inner is never taken.
IntoInnerNeverFails == last.op = "into_inner" => last.res.ok /\ last.calls = <<>>

\* The calls of one kind among the last operation's resource calls.
CallsOf(fn) == {i \in 1..Len(last.calls) : last.calls[i].fn = fn}

\* ---------------------------------------------------------------- claims
\* C1: a write of k bytes, 0 < k < write capacity, on a stream whose output
\* buffer is empty issues no write call on the resource, which receives nothing.
C1_SmallWriteIsBuffered ==
  [][(/\ last'.op = "write" /\ nops' = nops + 1
      /\ wbuf = <<>> /\ 0 < last'.len /\ last'.len < wcap)
     => (/\ sink' = sink
         /\ \A i \in 1..Len(last'.calls) : last'.calls[i].fn # "write")]_vars

\* C2: into_inner after writes and flushes on a resource whose write and flush
\* never failed returns Ok, hands the resource to the caller, and the resource
\* has received exactly the bytes write accepted, in order, each once.
C2_UnwrapSuccess ==
  (last.op = "into_inner" /\ ~wfail)
    => (last.res.ok /\ owner = "caller" /\ sink = accepted)

C2_Witness ==
  /\ last.op = "into_inner" /\ ~wfail /\ last.res.ok
  /\ Len(accepted) >= 2 /\ offered > Len(accepted)

\* C4: while the stream exists its slot holds the writer, and no operation has
\* panicked on an empty slot.
C4_SlotInvariant == (owner = "stream" => slot = "Some") /\ ~panicked

C4_Witness ==
  /\ owner = "stream" /\ slot = "Some" /\ nops >= 3
  /\ last.op = "flush" /\ Len(sink) > 0 /\ srcPos > 0

\* C7: a write or flush leaves the reader's filled region and cursor as they
\* were; a read, fill_buf or consume leaves the writer's buffer as it was.
C7_IndependentBuffering ==
  [][(nops' = nops + 1) =>
       (/\ last'.op \in {"write", "flush"} => (rbuf' = rbuf /\ pos' = pos)
        /\ last'.op \in {"read", "fill_buf", "consume"} => wbuf' = wbuf)]_vars

C7_Witness ==
  /\ last.op = "write" /\ last.res.ok /\ last.res.n > 0
  /\ Len(rbuf) = 2 /\ pos = 1

\* C8: when flush returns success the output buffer is empty and the resource
\* has received exactly the bytes write accepted, in order, each once.
C8_FlushDelivers ==
  (last.op = "flush" /\ last.res.ok) => (wbuf = <<>> /\ sink = accepted)

C8_Witness ==
  /\ last.op = "flush" /\ last.res.ok
  /\ Len(accepted) >= 2 /\ offered > Len(accepted)

\* C9: a failed resource call inside read, fill_buf, write or flush is the last
\* call the operation issues, and the operation returns that very error.
C9_ErrorPropagation ==
  last.op \in {"read", "fill_buf", "write", "flush"} =>
    \A i \in 1..Len(last.calls) :
      ~last.calls[i].res.ok =>
        (i = Len(last.calls) /\ last.res = Err(last.calls[i].res.err))

C9_Witness ==
  /\ last.op = "write" /\ ~last.res.ok
  /\ last.res.err.kind = "Interrupted" /\ Len(last.calls) = 1

\* C10: a write of zero bytes and a read into a zero-length destination return
\* Ok(0) and issue no call on the resource.
C10_ZeroLengthIO ==
  (last.op \in {"read", "write"} /\ last.len = 0)
    => (last.res = Ok(0) /\ last.calls = <<>>)

\* The stream's unconsumed window.
Window == WindowOf(rbuf, pos)

\* The step is a call of the public operation op.
Called(op) == nops' = nops + 1 /\ last'.op = op

\* C12: a write that exceeds the output buffer's remaining capacity sends every
\* previously buffered byte to the resource before any of its own bytes is
\* buffered or sent; if it returns an error none of its bytes was accepted,
\* buffered or sent; the resource receives bytes in the caller's order.
C12_FlushBeforeOverflow ==
  [][(Called("write") /\ Len(wbuf) + last'.len > wcap) =>
       LET new == WData(offered, last'.len) IN
       /\ last'.res.ok =>
            (/\ sink' \o wbuf' = (sink \o wbuf) \o Take(new, last'.res.n)
             /\ last'.res.n > 0 => Len(sink') >= Len(sink) + Len(wbuf))
       /\ ~last'.res.ok =>
            (/\ accepted' = accepted
             /\ sink' \o wbuf' = sink \o wbuf)
       /\ \A i, j \in 1..Len(sink') : i < j => sink'[i] < sink'[j]]_vars

C12_Witness ==
  /\ last.op = "write" /\ last.len > wcap /\ last.res.ok /\ last.res.n > 0
  /\ Len(accepted) > last.res.n /\ sink = accepted

\* C13: a write longer than the write capacity is handed to the resource as it
\* is, after the bytes buffered before it; the stream returns the resource's
\* result and the output buffer is empty afterwards.
C13_LargeWriteBypass ==
  [][(Called("write") /\ last'.len > wcap) =>
       (/\ wbuf' = <<>>
        /\ Len(last'.calls) >= 1
        /\ last'.calls[Len(last'.calls)] = Call("write", last'.len, last'.res)
        /\ sink' = (sink \o wbuf) \o Take(WData(offered, last'.len), last'.res.n))]_vars

C13_Witness ==
  /\ last.op = "write" /\ wcap = 0 /\ last.len = 2
  /\ last.res = Ok(1) /\ wbuf = <<>> /\ Len(sink) = 1

\* C14 (as stated): with an empty window, a read into a destination larger
\* than the read capacity is one resource read with the caller's destination,
\* and the input buffer's contents and cursor are left unchanged (still empty).
\* Fails: the bypass discards the buffer, so already consumed bytes are dropped
\* and the cursor goes back to 0.
C14_LargeReadLeavesBuffer ==
  [][(Called("read") /\ Window = <<>> /\ last'.len > rcap) =>
       (/\ last'.calls = <<Call("read", last'.len, last'.res)>>
        /\ rbuf' = rbuf /\ pos' = pos
        /\ Window' = <<>>)]_vars

\* C14 (amended): with an empty window, a read into a destination larger than
\* the read capacity is one resource read with the caller's destination, whose
\* result the stream returns and whose bytes go to the caller only; the input
\* buffer is discarded: afterwards it holds no byte and its cursor is at 0, so
\* the window is still empty.
C14_LargeReadBypass ==
  [][(Called("read") /\ Window = <<>> /\ last'.len > rcap) =>
       (/\ last'.calls = <<Call("read", last'.len, last'.res)>>
        /\ rbuf' = <<>> /\ pos' = 0
        /\ Window' = <<>>
        /\ delivered' = delivered \o SrcData(srcPos, last'.res.n))]_vars

\* A bypassing read after the buffer had been filled and consumed: one byte
\* came through fill_buf and consume, two through the read, and the buffer
\* is discarded.
C14_Witness ==
  /\ last.op = "read" /\ rcap = 1 /\ last.len = 2 /\ last.res = Ok(2)
  /\ Len(last.calls) = 1 /\ last.calls[1].len = 2
  /\ nops = 3 /\ delivered = SrcData(0, 3) /\ sink = <<>> /\ ~eof
  /\ rbuf = <<>> /\ pos = 0

\* C15: when the resource's read yields no byte, read returns Ok(0) and
\* fill_buf an empty window; the stream stays usable: a later write or flush
\* whose resource call succeeds returns success.
C15_EndOfStream ==
  /\ (last.op \in {"read", "fill_buf"} /\ SawZero(last.calls)) =>
       (/\ last.res = Ok(0) /\ Window = <<>>
        /\ owner = "stream" /\ slot = "Some" /\ ~panicked)
  /\ (eof /\ last.op \in {"write", "flush"}
         /\ \A i \in 1..Len(last.calls) : last.calls[i].res.ok) => last.res.ok

C15_Witness ==
  /\ eof /\ last.op = "flush" /\ last.res.ok
  /\ Len(accepted) > 0 /\ sink = accepted /\ srcPos = 0

\* C17: while the stream exists, the bytes delivered to the caller followed by
\* the bytes still in the window are exactly the bytes the resource's reads
\* yielded, in order: none dropped, none delivered twice.
C17_ReadIntegrity ==
  owner = "stream" => delivered \o Window = SrcData(0, srcPos)

C17_Witness ==
  /\ owner = "stream" /\ last.op = "consume" /\ last.len = 1
  /\ Len(delivered) >= 1 /\ Len(Window) >= 1

\* C18: the cursor never passes the filled length, which never passes the read
\* capacity; the unflushed output never passes the write capacity; consume(n)
\* with n larger than the window stops the cursor at the end of the window.
C18_BufferBounds ==
  [][/\ 0 <= pos' /\ pos' <= Len(rbuf') /\ Len(rbuf') <= rcap'
     /\ Len(wbuf') <= wcap'
     /\ (Called("consume") /\ last'.len > Len(rbuf) - pos) => pos' = Len(rbuf)]_vars

C18_Witness ==
  /\ last.op = "consume" /\ last.len = 2
  /\ Len(rbuf) = 1 /\ pos = 1 /\ Len(delivered) = 1

\* C19: read, fill_buf and consume issue no resource write or flush; write,
\* flush and into_inner issue no resource read; construction issues no call.
C19_DirectionIsolation ==
  /\ last.op \in {"read", "fill_buf", "consume"} =>
       \A i \in 1..Len(last.calls) : last.calls[i].fn = "read"
  /\ last.op \in {"write", "flush", "into_inner"} =>
       \A i \in 1..Len(last.calls) : last.calls[i].fn # "read"
  /\ last.op = "new" => (last.calls = <<>> /\ sink = <<>> /\ srcPos = 0)

C19_Witness ==
  /\ last.op = "fill_buf" /\ Len(last.calls) = 1 /\ last.res.ok
  /\ Len(sink) > 0 /\ Len(rbuf) = 2

====
